---- MODULE Spec2Model ----
(***************************************************************************)
(* Model of scripts/transform_data.py of the energy forecast pipeline:     *)
(* the run get_sql_engine -> load_raw_data -> transform_data ->            *)
(* save_features_data against the raw_demand and features_demand tables.   *)
(*                                                                         *)
(* A timestamp is the number of hours since 2024-01-01T00:00Z (a Monday),  *)
(* within the year 2024.  A nullable cell (a pandas float cell) is the     *)
(* empty sequence when it is missing (NaN) and <<v>> when it holds v.  A   *)
(* rolling mean is kept exact as <<sum, count>>.                           *)
(***************************************************************************)
EXTENDS Integers, Sequences, FiniteSets

VARIABLES
    pc,               \* position of the __main__ block
    engine,           \* "engine" or "None": result of get_sql_engine
    raw_demand,       \* rows of the raw_demand table, in storage order
    raw_df,           \* <<>> for None, <<df>> for the frame load_raw_data returned
    deduped,          \* the frame inside transform_data after line 64
    cleaned,          \* the frame inside transform_data after line 73
    transformed_df,   \* the frame transform_data returned
    session,          \* features_demand as seen by the connection of to_sql
    features_demand,  \* committed features_demand: <<>> no table, <<rows>> a table
    prev_features,    \* features_demand when the run started
    txn,              \* whether to_sql runs its statements in one transaction
    called,           \* the functions of the module the run has entered
    log               \* the outcome messages the run has printed

vars == <<pc, engine, raw_demand, raw_df, deduped, cleaned, transformed_df, session,
          features_demand, prev_features, txn, called, log>>

\* ------------------------------------------------------------------ bounds
MaxLen   == 3    \* longest exhaustively enumerated raw table
MaxExtra == 3    \* rows beyond the one-week lag in the long raw tables
MaxLead  == 2    \* leading rows with missing demand in the long raw tables

\* --------------------------------------------------------------- constants
Lag24h        == 24
LagWeek       == 24 * 7
RollingWindow == 24

\* ------------------------------------------------------------------- cells
NaN == <<>>
IsNull(c) == c = NaN
Cell(v) == <<v>>

\* a column or a frame as a sequence with every element computed once
AsSeq(f) == f \o <<>>

\* ------------------------------------------------------------ pandas pieces
\* rows of df at the positions i with keep[i], in order (boolean indexing)
Take(df, keep) ==
    LET tagged == AsSeq([i \in 1..Len(df) |-> [pos |-> i, row |-> df[i]]])
        kept   == SelectSeq(tagged, LAMBDA x : keep[x.pos])
    IN  AsSeq([i \in 1..Len(kept) |-> kept[i].row])

\* mutant: duplicated(keep="last")
DuplicatedKeepLast(df) ==
    AsSeq([i \in 1..Len(df) |->
        \E j \in (i + 1)..Len(df) : df[j].timestamp = df[i].timestamp])

\* df.index.duplicated(keep="first")
Duplicated(df) ==
    AsSeq([i \in 1..Len(df) |-> \E j \in 1..(i - 1) : df[j].timestamp = df[i].timestamp])

\* df[~df.index.duplicated(keep="first")]
DropDuplicates(df) ==
    LET dup == Duplicated(df)
    IN  Take(df, AsSeq([i \in 1..Len(df) |-> ~dup[i]]))

\* Series.ffill(): a missing cell takes the nearest preceding non-missing one
RECURSIVE LastValid(_, _)
LastValid(col, i) ==
    IF i = 0 THEN NaN
    ELSE IF ~IsNull(col[i]) THEN col[i]
    ELSE LastValid(col, i - 1)

\* mutant: ffill().bfill(), which also fills a leading gap
FFillThenBFill(col) ==
    AsSeq([i \in 1..Len(col) |->
        IF ~IsNull(LastValid(col, i)) THEN LastValid(col, i)
        ELSE IF \A j \in i..Len(col) : IsNull(col[j]) THEN NaN
        ELSE col[CHOOSE j \in i..Len(col) :
                     ~IsNull(col[j]) /\ \A m \in i..(j - 1) : IsNull(col[m])]])

\* mutant: ffill(limit=1), which fills one row of a gap only
FFillLimitOne(col) ==
    AsSeq([i \in 1..Len(col) |->
        IF IsNull(col[i]) /\ i > 1 THEN col[i - 1] ELSE col[i]])

FFill(col) == AsSeq([i \in 1..Len(col) |-> LastValid(col, i)])

\* mutant: shift(-n), which looks ahead
ShiftAhead(col, n) ==
    AsSeq([i \in 1..Len(col) |-> IF i + n <= Len(col) THEN col[i + n] ELSE NaN])

\* Series.shift(n)
Shift(col, n) ==
    AsSeq([i \in 1..Len(col) |-> IF i > n THEN col[i - n] ELSE NaN])

RECURSIVE SumCells(_, _, _)
SumCells(col, lo, hi) ==
    IF lo > hi THEN 0 ELSE col[lo][1] + SumCells(col, lo + 1, hi)

\* Series.rolling(window=w).mean(): min_periods is w, a window holding a
\* missing cell has no mean
RollingMean(col, w) ==
    AsSeq([i \in 1..Len(col) |->
        IF i >= w /\ \A j \in (i - w + 1)..i : ~IsNull(col[j])
        THEN <<SumCells(col, i - w + 1, i), w>>
        ELSE NaN])

\* ---------------------------------------------------------------- calendar
CumDays == <<0, 31, 60, 91, 121, 152, 182, 213, 244, 274, 305, 335, 366>>
Hour(ts)      == ts % 24
DayOfWeek(ts) == (ts \div 24) % 7
DayOfYear(ts) == (ts \div 24) + 1
Month(ts)     == CHOOSE m \in 1..12 :
                     CumDays[m] < DayOfYear(ts) /\ DayOfYear(ts) <= CumDays[m + 1]
Year(ts)      == 2024

\* ---------------------------------------------------------- transform_data
\* lines 67-73: forward fill demand_mwh when some cell of it is missing
FillMissing(d) ==
    LET col    == AsSeq([i \in 1..Len(d) |-> d[i].demand_mwh])
        nulls  == {i \in 1..Len(d) : IsNull(col[i])}
        filled == IF Cardinality(nulls) > 0 THEN FFill(col) ELSE col
    IN  AsSeq([i \in 1..Len(d) |->
                  [timestamp |-> d[i].timestamp, demand_mwh |-> filled[i]]])

\* lines 64-73: the cleaning step
Clean(df) == FillMissing(DropDuplicates(df))

\* mutant: the rolling mean taken without shift(1), so that it includes row t
BuildFeaturesLeaky(c) ==
    LET col   == AsSeq([i \in 1..Len(c) |-> c[i].demand_mwh])
        lag24 == Shift(col, Lag24h)
        lagwk == Shift(col, LagWeek)
        roll  == RollingMean(col, RollingWindow)
    IN  AsSeq([i \in 1..Len(c) |->
            [timestamp         |-> c[i].timestamp,
             demand_mwh        |-> c[i].demand_mwh,
             hour              |-> Hour(c[i].timestamp),
             day_of_week       |-> DayOfWeek(c[i].timestamp),
             day_of_year       |-> DayOfYear(c[i].timestamp),
             month             |-> Month(c[i].timestamp),
             year              |-> Year(c[i].timestamp),
             lag_demand_24h    |-> lag24[i],
             lag_demand_1_week |-> lagwk[i],
             rolling_mean_24h  |-> roll[i]]])

\* lines 79-92: the calendar columns, the two lags and the rolling mean
BuildFeatures(c) ==
    LET col   == AsSeq([i \in 1..Len(c) |-> c[i].demand_mwh])
        lag24 == Shift(col, Lag24h)
        lagwk == Shift(col, LagWeek)
        roll  == RollingMean(Shift(col, 1), RollingWindow)
    IN  AsSeq([i \in 1..Len(c) |->
            [timestamp         |-> c[i].timestamp,
             demand_mwh        |-> c[i].demand_mwh,
             hour              |-> Hour(c[i].timestamp),
             day_of_week       |-> DayOfWeek(c[i].timestamp),
             day_of_year       |-> DayOfYear(c[i].timestamp),
             month             |-> Month(c[i].timestamp),
             year              |-> Year(c[i].timestamp),
             lag_demand_24h    |-> lag24[i],
             lag_demand_1_week |-> lagwk[i],
             rolling_mean_24h  |-> roll[i]]])

\* mutant: dropna(subset=...) that leaves out the one-week lag
HasNaNoWeek(r) ==
    \/ IsNull(r.demand_mwh)
    \/ IsNull(r.lag_demand_24h)
    \/ IsNull(r.rolling_mean_24h)

\* line 96: df.dropna(); the calendar columns are never missing
HasNa(r) ==
    \/ IsNull(r.demand_mwh)
    \/ IsNull(r.lag_demand_24h)
    \/ IsNull(r.lag_demand_1_week)
    \/ IsNull(r.rolling_mean_24h)

DropNa(f) == Take(f, AsSeq([i \in 1..Len(f) |-> ~HasNa(f[i])]))

transform_data(df) == DropNa(BuildFeatures(Clean(df)))

\* ----------------------------------------------------------- load_raw_data
\* df.sort_index(): the default sort is not stable, so rows of one timestamp
\* may come out in any order; every ascending arrangement is an outcome
Arrangements(S) ==
    {p \in [1..Cardinality(S) -> S] : \A a, b \in 1..Cardinality(S) : p[a] = p[b] => a = b}

RECURSIVE SortedOrders(_, _, _)
SortedOrders(df, lo, hi) ==
    IF lo = hi
    THEN {AsSeq([k \in 1..Len(p) |-> df[p[k]]]) :
             p \in Arrangements({i \in 1..Len(df) : df[i].timestamp = lo})}
    ELSE LET mid == (lo + hi) \div 2
         IN  {a \o b : a \in SortedOrders(df, lo, mid),
                       b \in SortedOrders(df, mid + 1, hi)}

\* mutant: the frame is returned in storage order
NoSort(df) == {df}

SortIndex(df) ==
    LET stamps == {df[i].timestamp : i \in 1..Len(df)}
    IN  IF stamps = {} THEN {df}
        ELSE SortedOrders(df, CHOOSE t \in stamps : \A u \in stamps : t <= u,
                              CHOOSE t \in stamps : \A u \in stamps : u <= t)

\* ----------------------------------------------------------------- __main__
\* mutant: the result of load_raw_data is not tested
TransformAlways(r) == TRUE

\* line 127: if raw_df is not None
ShouldTransform(r) == r # NaN

\* mutant: the empty frame is not tested
SaveUnlessNone(t) == t # NaN

\* line 134: if transformed_df is not None and not transformed_df.empty
ShouldSave(t) == t # NaN /\ Len(t[1]) > 0

MsgLoadFailed == "Data loading failed."
MsgEmpty      == "Data transformation failed or resulted in an empty DataFrame."
MsgSaved      == "Successfully saved records to 'features_demand'."
MsgSaveError  == "Error saving data"

\* ------------------------------------------------------------------ inputs
\* raw_demand is read with SELECT * and no ORDER BY, so any storage order is
\* possible.  The table is created elsewhere only IF NOT EXISTS, and lines
\* 63-64 allow for repeated timestamps, so tables holding them are included.
SmallTimestamps == {0, 1}
SmallDemands    == {NaN, Cell(5), Cell(7)}
SmallRows       == [timestamp : SmallTimestamps, demand_mwh : SmallDemands]
SmallTables     == UNION {[1..n -> SmallRows] : n \in 0..MaxLen}

Reverse(t) == AsSeq([i \in 1..Len(t) |-> t[Len(t) + 1 - i]])

\* n hourly rows from hour 0 with demand base + i at hour i; the first lead
\* rows and the rows of the hours nullAt and nullAt + 1 have no demand
Hourly(n, lead, nullAt, base) ==
    AsSeq([j \in 1..n |->
        [timestamp  |-> j - 1,
         demand_mwh |-> IF j - 1 < lead \/ j - 1 \in {nullAt, nullAt + 1} THEN NaN
                        ELSE Cell(base + j - 1)]])

\* a second row for hour dupAt, stored right after the first
WithDup(t, dupAt) ==
    IF dupAt < 0 \/ dupAt >= Len(t) THEN t
    ELSE SubSeq(t, 1, dupAt + 1)
         \o <<[timestamp |-> dupAt, demand_mwh |-> Cell(9000 + dupAt)]>>
         \o SubSeq(t, dupAt + 2, Len(t))

DupChoices  == {-1, 0, 150}
NullChoices == {-2, 100}

LongTables ==
    {IF rev THEN Reverse(WithDup(Hourly(n, lead, nullAt, 1000), dupAt))
            ELSE WithDup(Hourly(n, lead, nullAt, 1000), dupAt) :
        n \in (LagWeek - 1)..(LagWeek + MaxExtra), lead \in 0..MaxLead,
        nullAt \in NullChoices, dupAt \in DupChoices, rev \in BOOLEAN}

\* 200 consecutive hourly rows from 2024-01-01T00:00Z with demand 1000 + i
ScenarioTable == Hourly(200, 0, -2, 1000)

RawTables == SmallTables \cup LongTables \cup {ScenarioTable}

\* the table an earlier successful run has stored
PrevTable == transform_data(Hourly(LagWeek + 2, 0, -2, 2000))

\* ------------------------------------------------------------ state machine
Init ==
    /\ pc = "start"
    /\ engine = "None"
    /\ raw_demand \in RawTables
    /\ raw_df = NaN
    /\ deduped = <<>>
    /\ cleaned = <<>>
    /\ transformed_df = NaN
    /\ features_demand \in {NaN, <<PrevTable>>}
    /\ session = features_demand
    /\ prev_features = features_demand
    /\ txn = FALSE
    /\ called = {}
    /\ log = <<>>

\* lines 11-33 and 122-123: no engine without DB_PASSWORD, and then no run
GetSqlEngine ==
    /\ pc = "start"
    /\ \E password \in BOOLEAN :
          /\ engine' = IF password THEN "engine" ELSE "None"
          /\ pc' = IF password THEN "load" ELSE "done"
    /\ called' = called \cup {"get_sql_engine"}
    /\ UNCHANGED <<raw_demand, raw_df, deduped, cleaned, transformed_df, session,
                   features_demand, prev_features, txn, log>>

\* lines 36-50 and 125-129: the query succeeds, the frame is sorted by index
LoadRawDataOk ==
    /\ pc = "load"
    /\ \E df \in SortIndex(raw_demand) :
          /\ raw_df' = <<df>>
          /\ pc' = IF ShouldTransform(<<df>>) THEN "transform" ELSE "done"
    /\ called' = called \cup {"load_raw_data"}
    /\ UNCHANGED <<engine, raw_demand, deduped, cleaned, transformed_df, session,
                   features_demand, prev_features, txn, log>>

\* lines 51-53 and 142-143: the query raises, load_raw_data returns None
LoadRawDataError ==
    /\ pc = "load"
    /\ raw_df' = NaN
    /\ pc' = IF ShouldTransform(NaN) THEN "transform" ELSE "done"
    /\ called' = called \cup {"load_raw_data"}
    /\ log' = Append(log, MsgLoadFailed)
    /\ UNCHANGED <<engine, raw_demand, deduped, cleaned, transformed_df, session,
                   features_demand, prev_features, txn>>

\* lines 56-99 and 132-141; transform_data(None) raises at line 64 and
\* nothing catches it
TransformData ==
    /\ pc = "transform"
    /\ called' = called \cup {"transform_data"}
    /\ IF raw_df = NaN
       THEN /\ pc' = "killed"
            /\ UNCHANGED <<deduped, cleaned, transformed_df, log>>
       ELSE /\ deduped' = DropDuplicates(raw_df[1])
            /\ cleaned' = Clean(raw_df[1])
            /\ transformed_df' = <<transform_data(raw_df[1])>>
            /\ IF ShouldSave(transformed_df')
               THEN pc' = "save" /\ log' = log
               ELSE pc' = "done" /\ log' = Append(log, MsgEmpty)
    /\ UNCHANGED <<engine, raw_demand, raw_df, session, features_demand,
                   prev_features, txn>>

\* lines 102-115: to_sql(if_exists="replace") is entered; whether the library
\* wraps its statements in one transaction depends on its version
SaveBegin ==
    /\ pc = "save"
    /\ txn' \in BOOLEAN
    /\ called' = called \cup {"save_features_data"}
    /\ pc' = IF session # NaN THEN "drop" ELSE "create"
    /\ UNCHANGED <<engine, raw_demand, raw_df, deduped, cleaned, transformed_df, session,
                   features_demand, prev_features, log>>

\* what a reader sees after a statement of to_sql
Visible(t) == IF txn THEN features_demand ELSE t

\* lines 106-112: "it will drop the table if it already exists"
SaveDrop ==
    /\ pc = "drop"
    /\ session' = NaN
    /\ features_demand' = Visible(session')
    /\ pc' = "create"
    /\ UNCHANGED <<engine, raw_demand, raw_df, deduped, cleaned, transformed_df,
                   prev_features, txn, called, log>>

\* lines 106-112: "and create a new one"
SaveCreate ==
    /\ pc = "create"
    /\ session' = <<<<>>>>
    /\ features_demand' = Visible(session')
    /\ pc' = "insert"
    /\ UNCHANGED <<engine, raw_demand, raw_df, deduped, cleaned, transformed_df,
                   prev_features, txn, called, log>>

\* lines 109-116: the rows are inserted, to_sql returns and all is committed
SaveInsert ==
    /\ pc = "insert"
    /\ session' = <<transformed_df[1]>>
    /\ features_demand' = session'
    /\ log' = Append(log, MsgSaved)
    /\ pc' = "done"
    /\ UNCHANGED <<engine, raw_demand, raw_df, deduped, cleaned, transformed_df,
                   prev_features, txn, called>>

\* lines 117-118: a statement raises; an open transaction is rolled back
SaveError ==
    /\ pc \in {"drop", "create", "insert"}
    /\ session' = features_demand
    /\ log' = Append(log, MsgSaveError)
    /\ pc' = "done"
    /\ UNCHANGED <<engine, raw_demand, raw_df, deduped, cleaned, transformed_df,
                   features_demand, prev_features, txn, called>>

\* the process is terminated; an open transaction is rolled back
Terminate ==
    /\ pc \notin {"done", "killed"}
    /\ session' = features_demand
    /\ pc' = "killed"
    /\ UNCHANGED <<engine, raw_demand, raw_df, deduped, cleaned, transformed_df,
                   features_demand, prev_features, txn, called, log>>

Next ==
    \/ GetSqlEngine
    \/ LoadRawDataOk
    \/ LoadRawDataError
    \/ TransformData
    \/ SaveBegin
    \/ SaveDrop
    \/ SaveCreate
    \/ SaveInsert
    \/ SaveError
    \/ Terminate

Spec == Init /\ [][Next]_vars

TypeOK ==
    /\ pc \in {"start", "load", "transform", "save", "drop", "create",
                "insert", "done", "killed"}
    /\ engine \in {"engine", "None"}
    /\ txn \in BOOLEAN

\* ------------------------------------------------------- claim vocabulary
Transformed == transformed_df # NaN
\* transform_data has just returned to __main__
Returned    == Transformed /\ "save_features_data" \notin called /\ pc # "killed"
Output      == transformed_df[1]
InLog(m)    == \E i \in 1..Len(log) : log[i] = m

Stamps(t)       == {t[i].timestamp : i \in 1..Len(t)}
FirstPos(t, ts) == CHOOSE i \in 1..Len(t) :
                       /\ t[i].timestamp = ts
                       /\ \A j \in 1..(i - 1) : t[j].timestamp # ts
StrictlyIncreasing(t) ==
    \A i \in 1..(Len(t) - 1) : t[i].timestamp < t[i + 1].timestamp

RECURSIVE DemandSum(_, _, _)
DemandSum(t, lo, hi) ==
    IF lo > hi THEN 0 ELSE t[lo].demand_mwh[1] + DemandSum(t, lo + 1, hi)

\* number of rows at the head of t whose demand is missing
LeadingNulls(t) ==
    IF \A i \in 1..Len(t) : IsNull(t[i].demand_mwh) THEN Len(t)
    ELSE (CHOOSE i \in 1..Len(t) :
              /\ ~IsNull(t[i].demand_mwh)
              /\ \A j \in 1..(i - 1) : IsNull(t[j].demand_mwh)) - 1

Max(a, b) == IF a > b THEN a ELSE b

LookBack(r) == <<r.lag_demand_24h, r.lag_demand_1_week, r.rolling_mean_24h>>

\* t with the demand of every row from position p on changed
Perturb(t, p) ==
    AsSeq([i \in 1..Len(t) |->
        IF i < p THEN t[i]
        ELSE [t[i] EXCEPT !.demand_mwh =
                 IF IsNull(@) THEN Cell(1) ELSE Cell(@[1] + 1)]])

\* ---------------------------------------------------------------------- C1
\* C1: every row t of the output has lag_demand_24h equal to the demand 24
\* rows before t in the cleaned series, lag_demand_1_week equal to the demand
\* 168 rows before, rolling_mean_24h equal to the mean of the demand of the
\* rows t-24..t-1, and none of the three changes when the demand of the rows
\* from t on is changed.
C1_NoLookAhead ==
    Returned =>
        \A k \in 1..Len(Output) :
            LET r == Output[k]
                p == FirstPos(cleaned, r.timestamp)
            IN  /\ p > 168
                /\ r.lag_demand_24h = cleaned[p - 24].demand_mwh
                /\ r.lag_demand_1_week = cleaned[p - 168].demand_mwh
                /\ r.rolling_mean_24h = <<DemandSum(cleaned, p - 24, p - 1), 24>>
                /\ LookBack(BuildFeatures(Perturb(cleaned, p))[p]) = LookBack(r)

C1_Witness ==
    /\ Returned
    /\ Len(Output) >= 2
    /\ Len(raw_df[1]) > Len(cleaned)
    /\ \E i \in 1..Len(deduped) : IsNull(deduped[i].demand_mwh)

\* ---------------------------------------------------------------------- C2
\* C2 (as stated): with L rows given to transform_data and W = 168, the output
\* has L - duplicates removed - W rows when W < L and is empty when L <= W.
C2_AsStated ==
    Returned =>
        LET L == Len(raw_df[1])
            D == L - Len(deduped)
        IN  /\ 168 < L => Len(Output) = L - D - 168
            /\ L <= 168 => Len(Output) = 0

\* C2 (amended): the output has max(0, L - D - W - K) rows, K being the number
\* of leading rows of the deduplicated series whose demand is missing.
C2_WarmUpTrimming ==
    Returned =>
        LET L == Len(raw_df[1])
            D == L - Len(deduped)
            K == LeadingNulls(deduped)
        IN  Len(Output) = Max(0, L - D - 168 - K)

C2_Witness ==
    /\ Returned
    /\ Len(Output) >= 1
    /\ Len(raw_df[1]) > Len(deduped)
    /\ LeadingNulls(deduped) >= 1

\* ---------------------------------------------------------------------- C3
\* C3: at every moment of a run, failed or terminated ones included, a reader
\* of features_demand sees the complete table of the previous successful run
\* or the complete new table, never no table, an empty one or a mixture.
C3_AtomicReplace ==
    \/ features_demand = prev_features
    \/ Transformed /\ features_demand = <<Output>>

LoadRaised == InLog(MsgLoadFailed)
Loaded     == "load_raw_data" \in called

\* C5 (as stated): when raw_demand is empty or cannot be read, load_raw_data
\* fails, transform_data and save_features_data are not entered and the
\* stored table does not change.
C5_AsStated ==
    (Loaded /\ (LoadRaised \/ Len(raw_demand) = 0)) =>
        /\ raw_df = NaN
        /\ LoadRaised
        /\ "transform_data" \notin called
        /\ "save_features_data" \notin called
        /\ features_demand = prev_features

\* C5 (amended): when raw_demand cannot be read, load_raw_data fails and
\* neither transform_data nor save_features_data is entered; when it is read
\* and empty, load_raw_data returns an empty frame, transform_data is entered
\* and returns an empty frame, and save_features_data is not entered; in both
\* cases the stored table does not change.
C5_DataUnavailable ==
    /\ (Loaded /\ LoadRaised) =>
           /\ raw_df = NaN
           /\ pc = "done"
           /\ "transform_data" \notin called
           /\ "save_features_data" \notin called
           /\ features_demand = prev_features
    /\ (Loaded /\ ~LoadRaised /\ Len(raw_demand) = 0) =>
           /\ raw_df = <<<<>>>>
           /\ pc \in {"transform", "done", "killed"}
           /\ pc = "done" => /\ "transform_data" \in called
                             /\ transformed_df = <<<<>>>>
                             /\ InLog(MsgEmpty)
           /\ "save_features_data" \notin called
           /\ features_demand = prev_features

C5_Witness ==
    /\ Loaded
    /\ LoadRaised
    /\ pc = "done"
    /\ Len(raw_demand) > 0
    /\ prev_features # NaN

\* ---------------------------------------------------------------------- C6
\* C6: whatever the order and the repetitions of the rows of raw_demand, the
\* rows transform_data returns and the rows the run stores are strictly
\* increasing by timestamp.
C6_Ordering ==
    /\ Transformed => StrictlyIncreasing(Output)
    /\ features_demand # NaN => StrictlyIncreasing(features_demand[1])

C6_Witness ==
    /\ pc = "done"
    /\ Transformed
    /\ Len(Output) >= 2
    /\ features_demand = <<Output>>
    /\ ~StrictlyIncreasing(raw_demand)
    /\ Len(raw_demand) > Cardinality(Stamps(raw_demand))

\* ---------------------------------------------------------------------- C7
\* C7 (as stated): for the 200 hourly rows with demand 1000 + i the output
\* has 32 rows, the first is row 168, with lag_24h = 1000 + 144,
\* lag_168h = 1000 + 0 and rolling_mean_24h = mean(1000+120 .. 1000+143).
C7_AsStated ==
    (Returned /\ raw_demand = ScenarioTable) =>
        /\ Len(Output) = 32
        /\ Output[1].timestamp = 168
        /\ Output[1].lag_demand_24h = Cell(1000 + 144)
        /\ Output[1].lag_demand_1_week = Cell(1000 + 0)
        /\ Output[1].rolling_mean_24h =
               <<DemandSum(ScenarioTable, 121, 144), 24>>

\* C7 (amended): the same, with rolling_mean_24h = mean(1000+144 .. 1000+167),
\* the 24 rows before row 168.
C7_Scenario ==
    (Returned /\ raw_demand = ScenarioTable) =>
        /\ Len(Output) = 32
        /\ Output[1].timestamp = 168
        /\ Output[1].lag_demand_24h = Cell(1000 + 144)
        /\ Output[1].lag_demand_1_week = Cell(1000 + 0)
        /\ Output[1].rolling_mean_24h =
               <<DemandSum(ScenarioTable, 145, 168), 24>>

C7_Witness ==
    /\ Returned
    /\ raw_demand = ScenarioTable
    /\ Len(Output) = 32
    /\ Output[1].day_of_week = 0

\* ---------------------------------------------------------------------- C8
\* the leading-gap rule of the cleaning step, from the series s to the
\* cleaned series c, rows being matched by timestamp
LeadingGapRule(s, c) ==
    LET k      == LeadingNulls(s)
        row(i) == c[FirstPos(c, s[i].timestamp)]
        before(i) == {j \in 1..(i - 1) : ~IsNull(s[j].demand_mwh)}
    IN  /\ Stamps(c) = Stamps(s)
        /\ \A i \in 1..k : IsNull(row(i).demand_mwh)
        /\ k < Len(s) => row(k + 1).demand_mwh = s[k + 1].demand_mwh
        /\ \A i \in 1..Len(s) :
               (IsNull(s[i].demand_mwh) /\ before(i) # {}) =>
                   row(i).demand_mwh =
                       s[CHOOSE j \in before(i) : \A m \in before(i) : m <= j].demand_mwh

\* C8 (as stated): when the first k rows of the sorted series have no demand
\* and row k+1 has the value v, cleaning leaves rows 1..k missing and row k+1
\* equal to v, and every missing demand with an earlier non-missing row takes
\* the nearest preceding non-missing value; timestamps are not altered.
C8_AsStated ==
    Returned => LeadingGapRule(raw_df[1], cleaned)

\* C8 (amended): the same of the sorted series after its repeated timestamps
\* are dropped (first kept).
C8_LeadingGap ==
    Returned =>
        /\ LeadingGapRule(deduped, cleaned)
        /\ Len(cleaned) = Len(deduped)
        /\ \A i \in 1..Len(deduped) : cleaned[i].timestamp = deduped[i].timestamp

C8_Witness ==
    /\ Returned
    /\ LeadingNulls(deduped) >= 1
    /\ LeadingNulls(deduped) < Len(deduped)
    /\ \E i \in 1..Len(deduped) :
           IsNull(deduped[i].demand_mwh) /\ ~IsNull(cleaned[i].demand_mwh)

\* ---------------------------------------------------------------------- C9
\* C9: of the rows of the sorted input that share a timestamp the cleaning
\* step keeps exactly the first and discards the others; a row whose
\* timestamp is unique is kept.
C9_KeepFirst ==
    Returned =>
        LET s == raw_df[1]
        IN  /\ Len(deduped) = Cardinality(Stamps(s))
            /\ Len(cleaned) = Len(deduped)
            /\ \A ts \in Stamps(s) :
                   LET first == s[FirstPos(s, ts)]
                   IN  \E i \in 1..Len(deduped) :
                           /\ deduped[i] = first
                           /\ cleaned[i].timestamp = ts
            /\ \A i \in 1..(Len(deduped) - 1) :
                   FirstPos(s, deduped[i].timestamp)
                       < FirstPos(s, deduped[i + 1].timestamp)

C9_Witness ==
    /\ Returned
    /\ \E i, j \in 1..Len(raw_df[1]) :
           /\ i < j
           /\ raw_df[1][i].timestamp = raw_df[1][j].timestamp
           /\ raw_df[1][i].demand_mwh # raw_df[1][j].demand_mwh
           /\ ~IsNull(raw_df[1][i].demand_mwh)
           /\ ~IsNull(raw_df[1][j].demand_mwh)
    /\ \E i \in 1..Len(raw_df[1]) :
           \A j \in 1..Len(raw_df[1]) :
               raw_df[1][j].timestamp = raw_df[1][i].timestamp => j = i

\* --------------------------------------------------------------------- C10
\* C10: the cleaning step applied to the series it has produced returns that
\* series.
C10_CleanFixedPoint ==
    Returned => Clean(cleaned) = cleaned

C10_Witness ==
    /\ Returned
    /\ Len(raw_df[1]) > Len(cleaned)
    /\ \E i \in 1..(Len(deduped) - 1) :
           /\ IsNull(deduped[i].demand_mwh) /\ ~IsNull(cleaned[i].demand_mwh)
           /\ IsNull(deduped[i + 1].demand_mwh)

====
